---------------------------- MODULE Spec2Model ----------------------------
(* A model of intent_tree.py: buildIntentTree runs one addDialog task per   *)
(* dialog on one asyncio event loop.  The tasks share one IntentTreeBuilder *)
(* tree and the process-wide cache of asyncCached(requestIntent).  A task   *)
(* runs without interruption from one suspension point to the next; the     *)
(* only suspension point of addDialog is the remote call inside             *)
(* requestIntent, reached on a cache miss.                                  *)
EXTENDS Integers, Sequences, FiniteSets, TLC

(* ------------------------------ bounds ---------------------------------- *)
\* calls of buildIntentTree in one process
MaxRuns == 2
\* number of dialogs handed to buildIntentTree
NumDialogs == 2
\* total number of utterances over all the dialogs of a batch
MaxTurns == 2
\* utterance texts are 1..MaxText; the integer order models the string order
MaxText == 2
\* ordinary intent names the service may answer are 1..MaxLabel
MaxLabel == 2

(* --------------------------- program constants -------------------------- *)
\* data.get('intent', {}).get('name') when the service names no intent
NoneLabel == -2
BOT_INTENT == -1
ROOT_INTENT == 0
\* the value lookupChild returns when the key is absent (dict.get -> None)
NoNode == 0
\* the node held by IntentTreeBuilder.treeRoot
treeRoot == 1

Texts == 1..MaxText
ClassifierLabels == {NoneLabel, BOT_INTENT, ROOT_INTENT} \cup (1..MaxLabel)
DialogPhrase == [text : Texts, is_bot : BOOLEAN]
DialogIds == 1..NumDialogs

RECURSIVE SeqsUpTo(_, _)
\* all sequences over S of length at most n
SeqsUpTo(S, n) ==
    IF n = 0 THEN {<<>>}
    ELSE LET shorter == SeqsUpTo(S, n - 1)
         IN  shorter \cup {Append(s, x) : s \in {q \in shorter : Len(q) = n - 1}, x \in S}

RECURSIVE SumLen(_, _)
SumLen(ds, k) == IF k = 0 THEN 0 ELSE Len(ds[k]) + SumLen(ds, k - 1)

RECURSIVE BatchesOf(_, _)
\* the lists of k dialogs that hold at most budget utterances in all
BatchesOf(k, budget) ==
    IF k = 0 THEN {<<>>}
    ELSE UNION {{Append(ds, dialog) : dialog \in SeqsUpTo(DialogPhrase, budget - SumLen(ds, k - 1))} :
                ds \in BatchesOf(k - 1, budget)}

\* the batches buildIntentTree is called with
Batches == BatchesOf(NumDialogs, MaxTurns)

VARIABLES
    dialogs,      \* the argument of buildIntentTree
    service,      \* the remote service's answers so far: text -> intent name
    cache,        \* asyncCached's dict, keyed by the phrase
    nodes,        \* the IntentTreeNode objects, in creation order
    pc,           \* per addDialog task: "new", "await", "done", "failed"
    idx,          \* per task: the number of phrases of its dialog it has handled
    node,         \* per task: the local variable node of addDialog
    issued,       \* per text: remote calls started
    failedCalls,  \* per text: remote calls that raised RequestError
    outcome,      \* buildIntentTree: "running", "returned", "failed"
    result,       \* the value buildIntentTree returned
    run           \* the number of this call of buildIntentTree in the process

vars == <<dialogs, service, cache, nodes, pc, idx, node, issued, failedCalls, outcome, result, run>>

(* ------------------------------ the tree -------------------------------- *)
\* IntentTreeNode.__init__; childrenMap is a dict: its items in insertion order
IntentTreeNode(intent) == [intent |-> intent, phrases |-> {}, childrenMap |-> <<>>]

\* the positions of key in a dict's item sequence (at most one)
KeyPos(m, key) == {i \in 1..Len(m) : m[i].key = key}

\* dict.get(key)
DictGet(m, key) == IF KeyPos(m, key) = {} THEN NoNode ELSE m[CHOOSE i \in KeyPos(m, key) : TRUE].val

\* m[key] = val: an existing key keeps its place, a new key goes last
DictSet(m, key, val) ==
    IF KeyPos(m, key) = {} THEN Append(m, [key |-> key, val |-> val])
    ELSE [i \in 1..Len(m) |-> IF m[i].key = key THEN [key |-> key, val |-> val] ELSE m[i]]

\* a lookupChild that never finds the child
lookupChildMiss(ns, n, intent) == NoNode

lookupChild(ns, n, intent) == DictGet(ns[n].childrenMap, intent)

\* an addChild that files the child under the parent's own intent
addChildOwnKey(ns, n, c) ==
    [ns EXCEPT ![n].childrenMap = DictSet(@, ns[n].intent, c)]

addChild(ns, n, c) ==
    [ns EXCEPT ![n].childrenMap = DictSet(@, ns[c].intent, c)]

\* a registerPhrase that keeps the last text only
registerPhraseLast(ns, n, text) == [ns EXCEPT ![n].phrases = {text}]

registerPhrase(ns, n, text) == [ns EXCEPT ![n].phrases = @ \cup {text}]

\* IntentTreeNode.children: the child objects in the dict's order
children(ns, n) == [i \in 1..Len(ns[n].childrenMap) |-> ns[n].childrenMap[i].val]

\* an addDialog that leaves out node = childNode
DescendStay(ns, cur, intent, text) ==
    LET found == DictGet(ns[cur].childrenMap, intent)
        fresh == Len(ns) + 1
        ns1 == IF found = NoNode
               THEN [Append(ns, IntentTreeNode(intent)) EXCEPT
                        ![cur].childrenMap = DictSet(@, intent, fresh)]
               ELSE ns
        childNode == IF found = NoNode THEN fresh ELSE found
    IN  [nodes |-> [ns1 EXCEPT ![childNode].phrases = @ \cup {text}], node |-> cur]

\* an addDialog that looks the child up under the root instead of under node
DescendFromRoot(ns, cur, intent, text) ==
    LET found == DictGet(ns[treeRoot].childrenMap, intent)
        fresh == Len(ns) + 1
        ns1 == IF found = NoNode
               THEN [Append(ns, IntentTreeNode(intent)) EXCEPT
                        ![treeRoot].childrenMap = DictSet(@, intent, fresh)]
               ELSE ns
        childNode == IF found = NoNode THEN fresh ELSE found
    IN  [nodes |-> [ns1 EXCEPT ![childNode].phrases = @ \cup {text}], node |-> childNode]

\* lines 101-107 of addDialog: look up or create the child of cur, register
\* the phrase on it and move to it
Descend(ns, cur, intent, text) ==
    LET found == lookupChild(ns, cur, intent)
        fresh == Len(ns) + 1
        ns1 == IF found = NoNode
               THEN addChild(Append(ns, IntentTreeNode(intent)), cur, fresh)
               ELSE ns
        childNode == IF found = NoNode THEN fresh ELSE found
    IN  [nodes |-> registerPhrase(ns1, childNode, text), node |-> childNode]

(* ------------------------------ the cache ------------------------------- *)
\* a cached_f that never finds its key
CacheHitNever(c, text) == FALSE

\* cached_f line 18: cache_key in cache
CacheHit(c, text) == text \in DOMAIN c

\* cached_f line 22: cache[cache_key] = result
CacheStore(c, text, label) == [t \in DOMAIN c \cup {text} |-> IF t = text THEN label ELSE c[t]]

(* --------------------------- one addDialog task -------------------------- *)
RECURSIVE addDialogClassifyAll(_, _, _, _, _)
\* an addDialog without the is_bot branch: every phrase goes to requestIntent
addDialogClassifyAll(dialog, i, cur, ns, c) ==
    IF i = Len(dialog) THEN [pc |-> "done", idx |-> i, node |-> cur, nodes |-> ns]
    ELSE LET phrase == dialog[i + 1]
         IN  IF phrase.text \in DOMAIN c
             THEN LET s == Descend(ns, cur, c[phrase.text], phrase.text)
                  IN  addDialogClassifyAll(dialog, i + 1, s.node, s.nodes, c)
             ELSE [pc |-> "await", idx |-> i, node |-> cur, nodes |-> ns]

RECURSIVE addDialog(_, _, _, _, _)
\* addDialog from its phrase number i + 1 on, with cursor cur, until it
\* suspends in the remote call of a cache miss or the dialog ends
addDialog(dialog, i, cur, ns, c) ==
    IF i = Len(dialog) THEN [pc |-> "done", idx |-> i, node |-> cur, nodes |-> ns]
    ELSE LET phrase == dialog[i + 1]
         IN  IF phrase.is_bot
             THEN LET s == Descend(ns, cur, BOT_INTENT, phrase.text)
                  IN  addDialog(dialog, i + 1, s.node, s.nodes, c)
             ELSE IF CacheHit(c, phrase.text)
             THEN LET s == Descend(ns, cur, c[phrase.text], phrase.text)
                  IN  addDialog(dialog, i + 1, s.node, s.nodes, c)
             ELSE [pc |-> "await", idx |-> i, node |-> cur, nodes |-> ns]

\* the text whose remote call task d is suspended in
Pending(d) == dialogs[d][idx[d] + 1].text

Bump(f, t) == [f EXCEPT ![t] = @ + 1]

\* the task's state after a run that ended as r; a run that ends suspended
\* has started one remote call
Ran(d, r) ==
    /\ pc' = [pc EXCEPT ![d] = r.pc]
    /\ idx' = [idx EXCEPT ![d] = r.idx]
    /\ node' = [node EXCEPT ![d] = r.node]
    /\ nodes' = r.nodes
    /\ issued' = IF r.pc = "await" THEN Bump(issued, dialogs[d][r.idx + 1].text) ELSE issued

(* -------------------------------- export -------------------------------- *)
RECURSIVE sorted(_)
\* sorted(child.phrases): the ascending sequence of a set of texts
sorted(S) ==
    IF S = {} THEN <<>>
    ELSE LET m == CHOOSE x \in S : \A y \in S : x <= y
         IN  <<m>> \o sorted(S \ {m})

RECURSIVE intentSubtreeAlwaysIntent(_, _)
\* an _intentSubtree that writes the intent field into every record
intentSubtreeAlwaysIntent(ns, n) ==
    LET cs == [i \in 1..Len(ns[n].childrenMap) |-> ns[n].childrenMap[i].val]
    IN  [i \in 1..Len(cs) |->
            [is_bot |-> ns[cs[i]].intent = BOT_INTENT, phrases |-> sorted(ns[cs[i]].phrases),
             replies |-> intentSubtreeAlwaysIntent(ns, cs[i]), intent |-> ns[cs[i]].intent]]

RECURSIVE intentSubtree(_, _)
\* IntentTreeBuilder._intentSubtree
intentSubtree(ns, n) ==
    LET cs == children(ns, n)
        nodeData(child) ==
            LET is_bot == ns[child].intent = BOT_INTENT
            IN  IF is_bot
                THEN [is_bot |-> is_bot, phrases |-> sorted(ns[child].phrases),
                      replies |-> intentSubtree(ns, child)]
                ELSE [is_bot |-> is_bot, phrases |-> sorted(ns[child].phrases),
                      replies |-> intentSubtree(ns, child), intent |-> ns[child].intent]
    IN  [i \in 1..Len(cs) |-> nodeData(cs[i])]

intentTree(ns) == intentSubtree(ns, treeRoot)

(* ------------------------------- actions -------------------------------- *)
Init ==
    /\ dialogs \in Batches
    /\ service = <<>>
    /\ cache = <<>>
    /\ nodes = <<IntentTreeNode(ROOT_INTENT)>>
    /\ pc = [d \in DialogIds |-> "new"]
    /\ idx = [d \in DialogIds |-> 0]
    /\ node = [d \in DialogIds |-> treeRoot]
    /\ issued = [t \in Texts |-> 0]
    /\ failedCalls = [t \in Texts |-> 0]
    /\ outcome = "running"
    /\ result = <<>>
    /\ run = 1

\* the first step of the task gather made for dialog d; the loop runs the
\* first steps in the order the tasks were made
Start(d) ==
    /\ pc[d] = "new"
    /\ \A e \in 1..(d - 1) : pc[e] # "new"
    /\ Ran(d, addDialog(dialogs[d], 0, treeRoot, nodes, cache))
    /\ UNCHANGED <<run, dialogs, service, cache, failedCalls, outcome, result>>

\* the remote call of task d answers 200 with an intent name: cached_f
\* stores it and addDialog goes on
RequestReturns(d) ==
    /\ pc[d] = "await"
    /\ \A e \in DialogIds : pc[e] # "new"
    /\ \E label \in ClassifierLabels :
        /\ Pending(d) \in DOMAIN service => label = service[Pending(d)]
        /\ service' = [t \in DOMAIN service \cup {Pending(d)} |->
                            IF t = Pending(d) THEN label ELSE service[t]]
        /\ cache' = CacheStore(cache, Pending(d), label)
        /\ LET s == Descend(nodes, node[d], label, Pending(d))
           IN  Ran(d, addDialog(dialogs[d], idx[d] + 1, s.node, s.nodes, cache'))
    /\ UNCHANGED <<run, dialogs, failedCalls, outcome, result>>

\* a cached_f that stores the failure of the call as its result
RequestFailsCached(d) ==
    /\ pc[d] = "await"
    /\ \A e \in DialogIds : pc[e] # "new"
    /\ pc' = [pc EXCEPT ![d] = "failed"]
    /\ failedCalls' = Bump(failedCalls, Pending(d))
    /\ cache' = CacheStore(cache, Pending(d), NoneLabel)
    /\ UNCHANGED <<run, dialogs, service, nodes, idx, node, issued, outcome, result>>

\* an addDialog that catches the error and files the phrase under the absent label
RequestFailsSuppressed(d) ==
    /\ pc[d] = "await"
    /\ \A e \in DialogIds : pc[e] # "new"
    /\ failedCalls' = Bump(failedCalls, Pending(d))
    /\ LET s == Descend(nodes, node[d], NoneLabel, Pending(d))
       IN  Ran(d, addDialog(dialogs[d], idx[d] + 1, s.node, s.nodes, cache))
    /\ UNCHANGED <<run, dialogs, service, cache, outcome, result>>

\* an addDialog that takes the phrases of its dialog out of the tree again
\* when a call fails
RequestFailsRollback(d) ==
    /\ pc[d] = "await"
    /\ \A e \in DialogIds : pc[e] # "new"
    /\ pc' = [pc EXCEPT ![d] = "failed"]
    /\ failedCalls' = Bump(failedCalls, Pending(d))
    /\ nodes' = [n \in DOMAIN nodes |->
                    [nodes[n] EXCEPT !.phrases = @ \ {dialogs[d][i].text : i \in 1..idx[d]}]]
    /\ UNCHANGED <<run, dialogs, service, cache, idx, node, issued, outcome, result>>

\* a client that never hands the error of a failed call to the waiting task
RequestFailsLost(d) ==
    /\ pc[d] = "await"
    /\ \A e \in DialogIds : pc[e] # "new"
    /\ pc' = [pc EXCEPT ![d] = "lost"]
    /\ failedCalls' = Bump(failedCalls, Pending(d))
    /\ UNCHANGED <<run, dialogs, service, cache, nodes, idx, node, issued, outcome, result>>

\* the remote call of task d answers with another status: RequestError
\* leaves cached_f and addDialog
RequestFails(d) ==
    /\ pc[d] = "await"
    /\ \A e \in DialogIds : pc[e] # "new"
    /\ pc' = [pc EXCEPT ![d] = "failed"]
    /\ failedCalls' = Bump(failedCalls, Pending(d))
    /\ UNCHANGED <<run, dialogs, service, cache, nodes, idx, node, issued, outcome, result>>

\* a gather that hands exceptions back as results (return_exceptions=True)
BuildReturnsExceptions ==
    /\ outcome = "running"
    /\ \A d \in DialogIds : pc[d] \in {"done", "failed"}
    /\ outcome' = "returned"
    /\ result' = intentTree(nodes)
    /\ UNCHANGED <<run, dialogs, service, cache, nodes, pc, idx, node, issued, failedCalls>>

\* gather delivers the results of all tasks and buildIntentTree returns
BuildReturns ==
    /\ outcome = "running"
    /\ \A d \in DialogIds : pc[d] = "done"
    /\ outcome' = "returned"
    /\ result' = intentTree(nodes)
    /\ UNCHANGED <<run, dialogs, service, cache, nodes, pc, idx, node, issued, failedCalls>>

\* gather delivers the first exception and buildIntentTree raises it
BuildFails ==
    /\ outcome = "running"
    /\ \E d \in DialogIds : pc[d] = "failed"
    /\ outcome' = "failed"
    /\ UNCHANGED <<run, dialogs, service, cache, nodes, pc, idx, node, issued, failedCalls, result>>

Next ==
    \/ \E d \in DialogIds : Start(d)
    \/ \E d \in DialogIds : RequestReturns(d)
    \/ \E d \in DialogIds : RequestFails(d)
    \/ BuildReturns
    \/ BuildFails

Spec == Init /\ [][Next]_vars

\* buildIntentTree is called again in the same process once the last call
\* has ended and its tasks are over: a new builder with its own root (line
\* 129) and new tasks, while the dict made by asyncCached at line 15, when
\* requestIntent was decorated, stays as it is; the call counts start anew
NewRun ==
    /\ run < MaxRuns
    /\ outcome # "running"
    /\ \A d \in DialogIds : pc[d] \in {"done", "failed"}
    /\ run' = run + 1
    /\ dialogs' \in Batches
    /\ nodes' = <<IntentTreeNode(ROOT_INTENT)>>
    /\ pc' = [d \in DialogIds |-> "new"]
    /\ idx' = [d \in DialogIds |-> 0]
    /\ node' = [d \in DialogIds |-> treeRoot]
    /\ issued' = [t \in Texts |-> 0]
    /\ failedCalls' = [t \in Texts |-> 0]
    /\ outcome' = "running"
    /\ result' = <<>>
    /\ UNCHANGED <<service, cache>>

NextRuns == Next \/ NewRun

\* a process that calls buildIntentTree up to MaxRuns times
SpecRuns == Init /\ [][NextRuns]_vars

\* the event loop runs a step whenever one is ready, and a remote call that
\* is awaited answers in the end, with an intent name or with an error: as
\* long as some step is possible, a step is taken
Fairness == WF_vars(Next)

FairSpec == Spec /\ Fairness

TypeOK ==
    /\ pc \in [DialogIds -> {"new", "await", "done", "failed"}]
    /\ outcome \in {"running", "returned", "failed"}
    /\ \A d \in DialogIds : idx[d] \in 0..Len(dialogs[d]) /\ node[d] \in 1..Len(nodes)

(* ------------------------ vocabulary of the claims ----------------------- *)
NodeIds == 1..Len(nodes)

\* the label of phrase number i of dialog d: BOT for a bot turn, the
\* service's answer for a user turn
LabelOf(d, i) ==
    IF dialogs[d][i].is_bot THEN BOT_INTENT ELSE service[dialogs[d][i].text]

LabelPath(d, k) == [i \in 1..k |-> LabelOf(d, i)]

\* the phrases of the batch, as <<dialog, position>>
Turns == UNION {{<<d, k>> : k \in 1..Len(dialogs[d])} : d \in DialogIds}

RECURSIVE Walk(_, _, _)
\* the node reached from n along a path of labels, NoNode if the path leaves the tree
Walk(ns, n, path) ==
    IF path = <<>> THEN n
    ELSE LET c == DictGet(ns[n].childrenMap, Head(path))
         IN  IF c = NoNode THEN NoNode ELSE Walk(ns, c, Tail(path))

\* the nodes that hold n in their childrenMap
Parents(ns, n) ==
    {p \in 1..Len(ns) : \E i \in 1..Len(ns[p].childrenMap) : ns[p].childrenMap[i].val = n}

RECURSIVE PathOf(_, _)
\* the labels from the root down to n
PathOf(ns, n) ==
    IF n = treeRoot \/ Parents(ns, n) = {} THEN <<>>
    ELSE Append(PathOf(ns, CHOOSE p \in Parents(ns, n) : TRUE), ns[n].intent)

\* the label a record of the export stands for
RecLabel(r) == IF r.is_bot THEN BOT_INTENT ELSE r.intent

(* -------------------------------- claims -------------------------------- *)

\* C1: for every text at most one remote call is issued unless an earlier
\* call for that text has failed (a second resolve of a text in flight waits
\* instead of calling again).
C1_OneCallPerText ==
    \A t \in Texts : issued[t] <= 1 + failedCalls[t]

\* C2: once a label is stored for a text, a resolve of that text issues no
\* remote call and the traversal gets the stored label.
C2_CachedResolve ==
    [][/\ \A t \in DOMAIN cache' : issued'[t] = issued[t]
       /\ \A d \in DialogIds :
            \A i \in (IF pc[d] = "await" THEN idx[d] + 2 ELSE idx[d] + 1)..idx'[d] :
                ~dialogs[d][i].is_bot =>
                    /\ dialogs[d][i].text \in DOMAIN cache'
                    /\ PathOf(nodes', node'[d])[i] = cache'[dialogs[d][i].text]]_vars

\* a dialog that says the same user text twice has finished on one call
C2_Witness ==
    \E d \in DialogIds :
        /\ pc[d] = "done" /\ Len(dialogs[d]) = 2
        /\ ~dialogs[d][1].is_bot /\ dialogs[d][2] = dialogs[d][1]
        /\ issued[dialogs[d][1].text] = 1
        /\ idx[d] = 2

\* C3: when buildIntentTree returns, the non-root nodes are in one-to-one
\* correspondence with the distinct non-empty label-path prefixes of the
\* dialogs: each prefix leads to a node carrying its last label, and every
\* node is led to by exactly one prefix.
C3_MergedTree ==
    outcome = "returned" =>
        LET Expected == {LabelPath(tk[1], tk[2]) : tk \in Turns}
        IN  /\ \A p \in Expected :
                /\ Walk(nodes, treeRoot, p) \notin {NoNode, treeRoot}
                /\ nodes[Walk(nodes, treeRoot, p)].intent = p[Len(p)]
            /\ \A n \in NodeIds \ {treeRoot} :
                Cardinality({p \in Expected : Walk(nodes, treeRoot, p) = n}) = 1

\* two dialogs with different user texts of one label ended on the same node
C3_Witness ==
    /\ outcome = "returned"
    /\ Len(dialogs[1]) = 1 /\ Len(dialogs[2]) = 1
    /\ ~dialogs[1][1].is_bot /\ ~dialogs[2][1].is_bot
    /\ dialogs[1][1].text # dialogs[2][1].text
    /\ node[1] = node[2] /\ node[1] # treeRoot
    /\ Len(nodes) = 2

\* C4: in every state the children of a node have pairwise-distinct labels
\* and each child is stored under the key equal to its own label.
C4_DistinctChildren ==
    \A n \in NodeIds :
        LET m == nodes[n].childrenMap
        IN  /\ \A i \in 1..Len(m) : m[i].key = nodes[m[i].val].intent
            /\ \A i, j \in 1..Len(m) :
                i # j => nodes[m[i].val].intent # nodes[m[j].val].intent

\* a node has two children
C4_Witness ==
    \E n \in NodeIds : Len(nodes[n].childrenMap) = 2

\* C5: no step replaces a child or drops anything: every node keeps its
\* label, its phrases and its childrenMap entries in place, and an entry a
\* step adds has a key the node did not have and holds a node made in that step.
C5_NeverReplaced ==
    [][/\ Len(nodes') >= Len(nodes)
       /\ \A n \in NodeIds :
            LET m == nodes[n].childrenMap
                m2 == nodes'[n].childrenMap
            IN  /\ nodes'[n].intent = nodes[n].intent
                /\ nodes[n].phrases \subseteq nodes'[n].phrases
                /\ Len(m2) >= Len(m)
                /\ \A i \in 1..Len(m) : m2[i] = m[i]
                /\ \A i \in (Len(m) + 1)..Len(m2) :
                    /\ KeyPos(m, m2[i].key) = {}
                    /\ m2[i].val > Len(nodes)]_vars

\* two calls for one text were in flight together and both traversals ended
\* on the one child made for its label
C5_Witness ==
    /\ pc[1] = "done" /\ pc[2] = "done"
    /\ Len(dialogs[1]) = 1 /\ dialogs[2] = dialogs[1]
    /\ issued[dialogs[1][1].text] = 2
    /\ node[1] = node[2] /\ node[1] # treeRoot

\* C6: registering a text a node already holds changes nothing, and when
\* buildIntentTree returns a node's phrases are exactly the texts of the
\* turns whose label path ends at that node.
C6_PhraseSets ==
    /\ \A n \in NodeIds : \A t \in nodes[n].phrases : registerPhrase(nodes, n, t) = nodes
    /\ outcome = "returned" =>
        \A n \in NodeIds \ {treeRoot} :
            nodes[n].phrases =
                {dialogs[tk[1]][tk[2]].text :
                    tk \in {x \in Turns : Walk(nodes, treeRoot, LabelPath(x[1], x[2])) = n}}

\* two dialogs registered two different texts on one node
C6_Witness ==
    /\ outcome = "returned"
    /\ Len(dialogs[1]) = 1 /\ Len(dialogs[2]) = 1
    /\ node[1] = node[2]
    /\ Cardinality(nodes[node[1]].phrases) = 2

RECURSIVE Ascending(_)
\* the records of every replies sequence stand in ascending order of their labels
Ascending(recs) ==
    /\ \A i, j \in 1..Len(recs) : i < j => RecLabel(recs[i]) < RecLabel(recs[j])
    /\ \A i \in 1..Len(recs) : Ascending(recs[i].replies)

\* C7: in the exported output the records of a node's children appear in
\* ascending order of the children's labels, at every level (stated for the
\* runs in which the service answered ordinary intent names only).
C7_SortedReplies ==
    (outcome = "returned" /\ \A t \in DOMAIN service : service[t] \in 1..MaxLabel)
        => Ascending(result)

RECURSIVE Exports(_, _)
\* recs is the export of the children of n: one record per child, with the
\* child's flag, label, phrases and, nested, its own children
Exports(recs, n) ==
    /\ Len(recs) = Len(nodes[n].childrenMap)
    /\ \A i, j \in 1..Len(recs) : i # j => RecLabel(recs[i]) # RecLabel(recs[j])
    /\ \A i \in 1..Len(recs) :
        LET r == recs[i]
            c == DictGet(nodes[n].childrenMap, RecLabel(r))
        IN  /\ ("intent" \in DOMAIN r) <=> ~r.is_bot
            /\ c # NoNode
            /\ r.is_bot <=> nodes[c].intent = BOT_INTENT
            /\ ~r.is_bot => r.intent = nodes[c].intent
            /\ Len(r.phrases) = Cardinality(nodes[c].phrases)
            /\ {r.phrases[k] : k \in 1..Len(r.phrases)} = nodes[c].phrases
            /\ \A k \in 1..(Len(r.phrases) - 1) : r.phrases[k] < r.phrases[k + 1]
            /\ Exports(r.replies, c)

\* C8: the export holds one record per non-root node, nested as the tree is
\* and none for the root; is_bot is true exactly for a BOT node, intent is
\* present exactly when is_bot is false and is the node's label, and phrases
\* is the node's phrase set in ascending order without duplicates.
C8_ExportRecords ==
    outcome = "returned" => Exports(result, treeRoot)

\* the export holds a bot record with two phrases
C8_Witness ==
    /\ outcome = "returned"
    /\ Len(result) = 1 /\ result[1].is_bot
    /\ Len(result[1].phrases) = 2

\* C9: buildIntentTree returns a tree only when every traversal succeeded;
\* once a classification has failed it never returns one.
C9_FailureFailsBuild ==
    /\ outcome = "returned" => \A d \in DialogIds : pc[d] = "done"
    /\ (\E d \in DialogIds : pc[d] = "failed") => (outcome # "returned" /\ result = <<>>)

\* buildIntentTree failed although another dialog's traversal succeeded
C9_Witness ==
    /\ outcome = "failed"
    /\ \E d, e \in DialogIds :
        pc[d] = "failed" /\ pc[e] = "done" /\ Len(dialogs[e]) > 0

\* C10: buildIntentTree reports its outcome only after every traversal has
\* finished.
C10_AllFinishedAtOutcome ==
    outcome # "running" => \A d \in DialogIds : pc[d] \in {"done", "failed"}

\* phrase number i of dialog d
Phrase(d, i) == dialogs[d][i]

\* the node the first i phrases of dialog d lead to
NodeOf(d, i) == Walk(nodes, treeRoot, LabelPath(d, i))

C12_BotBypass ==
    /\ \A d \in DialogIds : pc[d] = "await" => ~Phrase(d, idx[d] + 1).is_bot
    /\ \A t \in Texts :
        LET users == {tk \in Turns : ~Phrase(tk[1], tk[2]).is_bot /\ Phrase(tk[1], tk[2]).text = t}
        IN  /\ issued[t] <= Cardinality(users)
            /\ users = {} => t \notin DOMAIN cache
    /\ \A d \in DialogIds : \A i \in 1..idx[d] :
        Phrase(d, i).is_bot => PathOf(nodes, node[d])[i] = BOT_INTENT

\* a dialog of one bot turn is done: no call for its text, nothing cached
C12_Witness ==
    /\ pc[1] = "done" /\ Len(dialogs[1]) = 1 /\ Phrase(1, 1).is_bot
    /\ issued[Phrase(1, 1).text] = 0
    /\ Phrase(1, 1).text \notin DOMAIN cache
    /\ nodes[node[1]].intent = BOT_INTENT
    /\ pc[2] = "await"

\* C13: a task's cursor after k handled turns is the node at the label path
\* of its first k turns, every handled turn is registered on the node of its
\* path, and the one turn being resolved is the next one.
C13_TurnsInOrder ==
    \A d \in DialogIds :
        /\ node[d] = NodeOf(d, idx[d])
        /\ PathOf(nodes, node[d]) = LabelPath(d, idx[d])
        /\ \A i \in 1..idx[d] :
            NodeOf(d, i) # NoNode /\ Phrase(d, i).text \in nodes[NodeOf(d, i)].phrases
        /\ pc[d] = "done" <=> (pc[d] # "new" /\ pc[d] # "failed" /\ idx[d] = Len(dialogs[d]))
        /\ pc[d] = "await" => idx[d] < Len(dialogs[d])

\* a task resolves its second turn with its first turn in the tree
C13_Witness ==
    \E d \in DialogIds :
        /\ pc[d] = "await" /\ idx[d] = 1
        /\ node[d] # treeRoot
        /\ Phrase(d, 1).text \in nodes[node[d]].phrases

\* C14: a traversal whose classification fails stops there: the failing
\* step adds no node, no phrase and no call, and a failed task never moves,
\* never changes the tree and never calls again.
C14_FailedStops ==
    [][/\ failedCalls' # failedCalls =>
            /\ nodes' = nodes /\ issued' = issued /\ cache' = cache
            /\ \E d \in DialogIds :
                pc[d] = "await" /\ pc'[d] = "failed" /\ idx'[d] = idx[d] /\ node'[d] = node[d]
       /\ \A d \in DialogIds :
            pc[d] = "failed" =>
                /\ pc'[d] = "failed" /\ idx'[d] = idx[d] /\ node'[d] = node[d]
                /\ (\A e \in DialogIds \ {d} : pc'[e] = pc[e] /\ idx'[e] = idx[e])
                        => (nodes' = nodes /\ issued' = issued)]_vars

\* a task failed on the first of its two turns and the tree is still empty
C14_Witness ==
    \E d \in DialogIds :
        /\ pc[d] = "failed" /\ idx[d] = 0 /\ Len(dialogs[d]) = 2
        /\ Len(nodes) = 1
        /\ outcome = "failed"

\* C15: a failing traversal rolls nothing back: the nodes and phrases of the
\* turns it handled before the failure are in the tree and the labels it
\* got are in the cache.
C15_NoRollback ==
    \A d \in DialogIds :
        pc[d] = "failed" =>
            \A i \in 1..idx[d] :
                /\ NodeOf(d, i) # NoNode
                /\ nodes[NodeOf(d, i)].intent = LabelOf(d, i)
                /\ Phrase(d, i).text \in nodes[NodeOf(d, i)].phrases
                /\ ~Phrase(d, i).is_bot =>
                    /\ Phrase(d, i).text \in DOMAIN cache
                    /\ cache[Phrase(d, i).text] = LabelOf(d, i)

\* a task failed on its second turn and its first turn is still in the tree
C15_Witness ==
    \E d \in DialogIds :
        /\ pc[d] = "failed" /\ idx[d] = 1
        /\ outcome = "failed"
        /\ node[d] # treeRoot
        /\ Phrase(d, 1).text \in nodes[node[d]].phrases

\* C16: when every remote call answers in the end, every traversal ends,
\* done or failed, and buildIntentTree returns or raises.
C16_Terminates ==
    <>(outcome # "running" /\ \A d \in DialogIds : pc[d] \in {"done", "failed"})

\* two dialogs of one user turn each are done and buildIntentTree has returned
C16_Witness ==
    /\ outcome = "returned"
    /\ \A d \in DialogIds :
        pc[d] = "done" /\ Len(dialogs[d]) = 1 /\ ~Phrase(d, 1).is_bot

\* C17: every call of buildIntentTree starts with an empty cache (and with
\* a tree that holds the root alone).
C17_FreshCachePerRun ==
    (\A d \in DialogIds : pc[d] = "new") => (cache = <<>> /\ Len(nodes) = 1)

(* The run of a batch in which the answer for the lowest-numbered waiting   *)
(* task always arrives first, computed from the batch and the service.      *)
RECURSIVE RefStarted(_)
\* the tasks 1..k have taken their first step, in order, on an empty cache
RefStarted(k) ==
    IF k = 0
    THEN [nodes |-> <<IntentTreeNode(ROOT_INTENT)>>, pc |-> <<>>, idx |-> <<>>, node |-> <<>>]
    ELSE LET st == RefStarted(k - 1)
             r == addDialog(dialogs[k], 0, treeRoot, st.nodes, <<>>)
         IN  [nodes |-> r.nodes, pc |-> Append(st.pc, r.pc),
              idx |-> Append(st.idx, r.idx), node |-> Append(st.node, r.node)]

RECURSIVE RefFinished(_, _)
\* from st with cache c: the lowest waiting task gets its answer, until no
\* task waits
RefFinished(st, c) ==
    LET waiting == {d \in DialogIds : st.pc[d] = "await"}
    IN  IF waiting = {} THEN st
        ELSE LET d == CHOOSE x \in waiting : \A y \in waiting : x <= y
                 t == dialogs[d][st.idx[d] + 1].text
                 c2 == CacheStore(c, t, service[t])
                 s == Descend(st.nodes, st.node[d], service[t], t)
                 r == addDialog(dialogs[d], st.idx[d] + 1, s.node, s.nodes, c2)
             IN  RefFinished([nodes |-> r.nodes, pc |-> [st.pc EXCEPT ![d] = r.pc],
                              idx |-> [st.idx EXCEPT ![d] = r.idx],
                              node |-> [st.node EXCEPT ![d] = r.node]], c2)

\* what buildIntentTree returns in that run
RefResult == intentTree(RefFinished(RefStarted(NumDialogs), <<>>).nodes)

\* C18: for a fixed batch and a service with a fixed label per text that
\* never fails, buildIntentTree returns the same output in every
\* interleaving: the output of any run is the output of the run in which the
\* lowest waiting task is answered first (stated for the runs in which the
\* service answered ordinary intent names only).
C18_SameOutput ==
    (outcome = "returned" /\ \A t \in DOMAIN service : service[t] \in 1..MaxLabel)
        => result = RefResult

\* C19: no node other than the root carries the ROOT label, and a node with
\* the BOT label holds the texts of bot turns only, whatever the service
\* answers.
C19_ReservedLabels ==
    /\ \A n \in NodeIds \ {treeRoot} : nodes[n].intent # ROOT_INTENT
    /\ \A d \in DialogIds : \A i \in 1..idx[d] :
        (NodeOf(d, i) # NoNode /\ nodes[NodeOf(d, i)].intent = BOT_INTENT) => Phrase(d, i).is_bot
=============================================================================
